---- MODULE Spec2Model ----
(***************************************************************************)
(* Model of bittracker's app.py: the transaction-to-graph pipeline of      *)
(* EnhancedBitcoinExplorer and the two Flask routes that drive it.         *)
(*                                                                         *)
(* Currency amounts are kept in satoshi (the integers the provider sends); *)
(* the code divides them by 100000000 and compares the quotients with      *)
(* decimal thresholds, so every threshold below is the code's threshold    *)
(* multiplied by 100000000.  Times are epoch seconds.                      *)
(***************************************************************************)
EXTENDS Integers, Sequences, FiniteSets, TLC

VARIABLES
    request,        \* the route called and its <int:time_filter> argument
    provider,       \* what blockstream answers: HTTP status and JSON body
    pc,             \* position of the request handler
    transactions,   \* result of get_address_transactions (None or a list)
    txs,            \* `transactions` inside create_enhanced_transaction_graph
    idx,            \* index of the next transaction of the fold loop
    nodes,          \* G.nodes, in insertion order, with node_type
    tx_count,       \* tx_count attribute of the main node
    edge_data,      \* the defaultdict of edge accumulators
    edges,          \* G.edges with their attributes
    response,       \* what the route returns
    call,           \* argument of a direct call of calculate_risk_score
    result          \* its return value

vars == <<request, provider, pc, transactions, txs, idx, nodes, tx_count,
          edge_data, edges, response, call, result>>

(***************************************************************************)
(* Bounds of the model.                                                    *)
(***************************************************************************)
MaxTxs == 2          \* raw transactions in one provider answer
MaxWindow == 2       \* largest <int:time_filter> requested, in days
MaxLegs == 2         \* legs of the free leg list of SpecLegs
MaxIn == 11          \* distinct input addresses of a wide transaction
MaxOut == 52         \* distinct output addresses of a wide transaction
MaxOutLegs == 22     \* output legs of a direct calculate_risk_score call
Now == 1700000000    \* the clock reading of the request

(***************************************************************************)
(* Program constants.                                                      *)
(***************************************************************************)
ReferenceHeight == 800000        \* get_confirmations
DustThreshold == 1               \* abs(net_change) < 0.00000001
ConsolidationThreshold == 1000   \* abs(input_val - output_val) < 0.00001
HighFee == 100000                \* tx_data['fee'] > 0.001
ManyOutputs == 20                \* len(tx_data['outputs']) > 20
BatchAddrs == 10                 \* len(addrs) > 10
MixingAddrs == 50                \* len(output_addrs) > 50
RiskCap == 5                     \* min(score, 5)
ExploreLimit == 15               \* explore_address: limit=15
FilteredLimit == 20              \* explore_address_filtered: limit=20
HttpOk == 200                    \* response.status_code == 200

DaySeconds == 24 * 3600

Unknown == "Unknown"
\* Python's None where the code returns an address or None.
None == "<None>"
\* A key the provider's JSON does not carry.
Absent == "<absent>"
\* The address being explored.
Subject == "S"

Abs(n) == IF n < 0 THEN -n ELSE n
Min(a, b) == IF a < b THEN a ELSE b
Max(a, b) == IF a > b THEN a ELSE b

RECURSIVE SumValues(_)
SumValues(legs) ==
    IF legs = <<>> THEN 0 ELSE legs[1].value + SumValues(Tail(legs))

AddrSet(legs) == {legs[i].address : i \in 1..Len(legs)}

(***************************************************************************)
(* get_confirmations                                                       *)
(***************************************************************************)
get_confirmations(status) ==
    IF ~status.confirmed THEN 0
    ELSE Max(0, ReferenceHeight - status.block_height)

(***************************************************************************)
(* format_timestamp: the label is <<kind, a, b>>.  diff.days is the floor  *)
(* of the difference in days; %H:%M is taken in UTC.                       *)
(***************************************************************************)
format_timestamp(timestamp) ==
    IF timestamp = 0 THEN <<"Unconfirmed", 0, 0>>
    ELSE LET days == (Now - timestamp) \div DaySeconds
             hh == (timestamp % DaySeconds) \div 3600
             mm == (timestamp % 3600) \div 60
         IN  IF days = 0 THEN <<"Today", hh, mm>>
             ELSE IF days = 1 THEN <<"Yesterday", hh, mm>>
             ELSE IF days < 7 THEN <<"days ago", days, 0>>
             ELSE <<"date", timestamp \div DaySeconds, hh * 60 + mm>>

(***************************************************************************)
(* categorize_transaction                                                  *)
(***************************************************************************)
\* The balance test with <= in place of <.
categorize_transaction_inclusive(input_addrs, output_addrs, input_val, output_val) ==
    IF Cardinality(input_addrs) = 1 /\ Cardinality(output_addrs) = 2
        THEN "simple_payment"
    ELSE IF Cardinality(input_addrs) > BatchAddrs
            \/ Cardinality(output_addrs) > BatchAddrs
        THEN "exchange_batch"
    ELSE IF Abs(input_val - output_val) <= ConsolidationThreshold
        THEN "consolidation"
    ELSE IF Cardinality(output_addrs) > MixingAddrs
        THEN "mixing_suspicious"
    ELSE "standard"

categorize_transaction(input_addrs, output_addrs, input_val, output_val) ==
    IF Cardinality(input_addrs) = 1 /\ Cardinality(output_addrs) = 2
        THEN "simple_payment"
    ELSE IF Cardinality(input_addrs) > BatchAddrs
            \/ Cardinality(output_addrs) > BatchAddrs
        THEN "exchange_batch"
    ELSE IF Abs(input_val - output_val) < ConsolidationThreshold
        THEN "consolidation"
    ELSE IF Cardinality(output_addrs) > MixingAddrs
        THEN "mixing_suspicious"
    ELSE "standard"

(***************************************************************************)
(* calculate_risk_score                                                    *)
(***************************************************************************)
\* The score without its cap.
calculate_risk_score_uncapped(tx_data) ==
    (IF tx_data.category = "mixing_suspicious" THEN 3 ELSE 0)
    + (IF Len(tx_data.outputs) > ManyOutputs THEN 2 ELSE 0)
    + (IF tx_data.fee > HighFee THEN 1 ELSE 0)
    + (IF tx_data.confirmations = 0 THEN 1 ELSE 0)

calculate_risk_score(tx_data) ==
    LET score == (IF tx_data.category = "mixing_suspicious" THEN 3 ELSE 0)
               + (IF Len(tx_data.outputs) > ManyOutputs THEN 2 ELSE 0)
               + (IF tx_data.fee > HighFee THEN 1 ELSE 0)
               + (IF tx_data.confirmations = 0 THEN 1 ELSE 0)
    IN  Min(score, RiskCap)

(***************************************************************************)
(* process_transactions_enhanced, one transaction of its loop.  A raw      *)
(* transaction is [txid, status, fee, vin, vout]; txid = Absent stands for *)
(* a record without the key, on which tx['txid'] raises KeyError.  A vin   *)
(* entry without 'prevout' is skipped; a leg without scriptpubkey_address  *)
(* gets the address "Unknown".                                             *)
(***************************************************************************)
LegAddress(raw_leg) ==
    IF raw_leg.address = Absent THEN Unknown ELSE raw_leg.address

RECURSIVE ProcessInputs(_)
ProcessInputs(vin) ==
    IF vin = <<>> THEN <<>>
    ELSE IF vin[1].prevout
        THEN <<[address |-> LegAddress(vin[1]), value |-> vin[1].value]>>
             \o ProcessInputs(Tail(vin))
        ELSE ProcessInputs(Tail(vin))

ProcessOutputs(vout) ==
    [i \in 1..Len(vout) |->
        [address |-> LegAddress(vout[i]), value |-> vout[i].value]]

RECURSIVE OwnValue(_, _)
OwnValue(legs, main_address) ==
    IF legs = <<>> THEN 0
    ELSE (IF legs[1].address = main_address THEN legs[1].value ELSE 0)
         + OwnValue(Tail(legs), main_address)

ProcessOne(main_address, tx) ==
    LET inputs  == ProcessInputs(tx.vin)
        outputs == ProcessOutputs(tx.vout)
        base == [txid          |-> tx.txid,
                 block_height  |-> tx.status.block_height,
                 confirmations |-> get_confirmations(tx.status),
                 time          |-> format_timestamp(tx.status.block_time),
                 raw_time      |-> tx.status.block_time,
                 fee           |-> tx.fee,
                 inputs        |-> inputs,
                 outputs       |-> outputs,
                 amount_change |-> OwnValue(outputs, main_address)
                                   - OwnValue(inputs, main_address),
                 category      |-> "unknown",
                 risk_score    |-> 0]
        categorized == [base EXCEPT !.category =
                            categorize_transaction(AddrSet(inputs), AddrSet(outputs),
                                                   SumValues(inputs), SumValues(outputs))]
    IN  [categorized EXCEPT !.risk_score = calculate_risk_score(categorized)]

Raises(raw) == \E i \in 1..Len(raw) : raw[i].txid = Absent

process_transactions_enhanced(main_address, raw) ==
    [i \in 1..Len(raw) |-> ProcessOne(main_address, raw[i])]

(***************************************************************************)
(* get_address_transactions: None (isNone) on a status other than 200 and  *)
(* on any exception of the processing, else the processed list.            *)
(***************************************************************************)
Take(s, limit) == SubSeq(s, 1, Min(limit, Len(s)))

NoneResult == [isNone |-> TRUE, list |-> <<>>]

get_address_transactions(address, limit, answer) ==
    IF answer.status # HttpOk THEN NoneResult
    ELSE IF Raises(Take(answer.body, limit)) THEN NoneResult
    ELSE [isNone |-> FALSE,
          list |-> process_transactions_enhanced(address, Take(answer.body, limit))]

\* Python's truth value of `transactions`: None and [] are both false.
Truthy(r) == ~r.isNone /\ r.list # <<>>

(***************************************************************************)
(* find_primary_address.  Python's max returns the first of the items of   *)
(* greatest key.                                                           *)
(***************************************************************************)
\* The last of the items of greatest value.
RECURSIVE MaxByValue_last(_)
MaxByValue_last(items) ==
    IF Len(items) = 1 THEN items[1]
    ELSE LET rest == MaxByValue_last(Tail(items))
         IN  IF rest.value >= items[1].value THEN rest ELSE items[1]

RECURSIVE MaxByValue(_)
MaxByValue(items) ==
    IF Len(items) = 1 THEN items[1]
    ELSE LET rest == MaxByValue(Tail(items))
         IN  IF rest.value > items[1].value THEN rest ELSE items[1]

IsCandidate(item, main_address) ==
    item.address # main_address /\ item.address # Unknown

find_primary_address(addr_list, main_address) ==
    LET candidates == SelectSeq(addr_list, LAMBDA item : IsCandidate(item, main_address))
    IN  IF candidates = <<>> THEN None ELSE MaxByValue(candidates).address

\* Python's truth value of the returned address: None and '' are false.
AddressTruthy(a) == a # None /\ a # ""

(***************************************************************************)
(* create_enhanced_transaction_graph: the time filter.  time_filter is     *)
(* None on the plain route; `if time_filter:` is false for None and for 0. *)
(***************************************************************************)
FilterApplies(req) == req.route = "filtered" /\ req.days # 0

KeptByFilter(tx, days) == tx.raw_time > Now - days * DaySeconds

FilterTransactions(list, req) ==
    IF FilterApplies(req)
        THEN SelectSeq(list, LAMBDA tx : KeptByFilter(tx, req.days))
        ELSE list

(***************************************************************************)
(* G.add_node: a new node is appended, an existing one has its attributes  *)
(* overwritten.                                                            *)
(***************************************************************************)
HasNode(ns, a) == \E i \in 1..Len(ns) : ns[i].address = a

add_node(ns, a, type) ==
    IF HasNode(ns, a)
        THEN [i \in 1..Len(ns) |->
                IF ns[i].address = a THEN [ns[i] EXCEPT !.node_type = type] ELSE ns[i]]
        ELSE Append(ns, [address |-> a, node_type |-> type])

(***************************************************************************)
(* The body of the fold loop for one transaction, on the pair              *)
(* acc = [edge_data, nodes].                                               *)
(***************************************************************************)
NewEdge == [amount |-> 0, count |-> 0, txs |-> <<>>, direction |-> "unset"]

\* The accumulation without abs().
Merge_signed(ed, key, tx, net_change, dir) ==
    LET old == IF key \in DOMAIN ed THEN ed[key] ELSE NewEdge
        new == [amount    |-> old.amount + net_change,
                count     |-> old.count + 1,
                txs       |-> Append(old.txs, tx),
                direction |-> dir]
    IN  [k \in DOMAIN ed \cup {key} |-> IF k = key THEN new ELSE ed[k]]

Merge(ed, key, tx, net_change, dir) ==
    LET old == IF key \in DOMAIN ed THEN ed[key] ELSE NewEdge
        new == [amount    |-> old.amount + Abs(net_change),
                count     |-> old.count + 1,
                txs       |-> Append(old.txs, tx),
                direction |-> dir]
    IN  [k \in DOMAIN ed \cup {key} |-> IF k = key THEN new ELSE ed[k]]

\* The test left out.
IsDust_never(net_change) == FALSE

IsDust(net_change) == Abs(net_change) < DustThreshold

FoldTx(acc, tx, address) ==
    LET net_change == tx.amount_change
    IN  IF IsDust(net_change) THEN acc
        ELSE IF net_change > 0
            THEN LET primary_source == find_primary_address(tx.inputs, address)
                 IN  IF AddressTruthy(primary_source)
                        THEN [edge_data |-> Merge(acc.edge_data, <<primary_source, address>>,
                                                  tx, net_change, "incoming"),
                              nodes |-> add_node(acc.nodes, primary_source, "input")]
                        ELSE acc
            ELSE LET primary_dest == find_primary_address(tx.outputs, address)
                 IN  IF AddressTruthy(primary_dest)
                        THEN [edge_data |-> Merge(acc.edge_data, <<address, primary_dest>>,
                                                  tx, net_change, "outgoing"),
                              nodes |-> add_node(acc.nodes, primary_dest, "output")]
                        ELSE acc

\* The whole fold loop over a list.
RECURSIVE FoldAll(_, _, _)
FoldAll(acc, list, address) ==
    IF list = <<>> THEN acc
    ELSE FoldAll(FoldTx(acc, list[1], address), Tail(list), address)

(***************************************************************************)
(* The loop that adds the aggregated edges to G.                           *)
(***************************************************************************)
RECURSIVE MaxRisk(_)
MaxRisk(list) ==
    IF Len(list) = 1 THEN list[1].risk_score
    ELSE Max(list[1].risk_score, MaxRisk(Tail(list)))

RECURSIVE MaxByRawTime(_)
MaxByRawTime(list) ==
    IF Len(list) = 1 THEN list[1]
    ELSE LET rest == MaxByRawTime(Tail(list))
         IN  IF rest.raw_time > list[1].raw_time THEN rest ELSE list[1]

\* The display time of the contribution appended last.
LatestTx_last(list) == list[Len(list)].time

LatestTx(list) == MaxByRawTime(list).time

AddEdges(ed) ==
    [key \in DOMAIN ed |->
        [amount     |-> ed[key].amount,
         count      |-> ed[key].count,
         direction  |-> ed[key].direction,
         risk_level |-> MaxRisk(ed[key].txs),
         categories |-> {ed[key].txs[i].category : i \in 1..Len(ed[key].txs)},
         latest_tx  |-> LatestTx(ed[key].txs)]]

(***************************************************************************)
(* create_plotly_graph_enhanced: the figure is kept as the hover data of   *)
(* its nodes and the edge attributes it draws.                             *)
(***************************************************************************)
RECURSIVE SumAmounts(_, _)
SumAmounts(es, keys) ==
    IF keys = {} THEN 0
    ELSE LET k == CHOOSE x \in keys : TRUE
         IN  es[k].amount + SumAmounts(es, keys \ {k})

IncomingShown(es, node) ==
    SumAmounts(es, {e \in DOMAIN es : e[2] = node /\ es[e].direction = "incoming"})

OutgoingShown(es, node) ==
    SumAmounts(es, {e \in DOMAIN es : e[1] = node /\ es[e].direction = "outgoing"})

NodeInfo(es, n, count) ==
    IF n.node_type = "main"
        THEN [address |-> n.address, role |-> "YOUR ADDRESS", total |-> count]
    ELSE IF n.node_type = "input"
        THEN [address |-> n.address, role |-> "SOURCE",
              total |-> IncomingShown(es, n.address)]
    ELSE [address |-> n.address, role |-> "DESTINATION",
          total |-> OutgoingShown(es, n.address)]

EmptyFigure == [annotation |-> "No meaningful transactions found",
                node_info |-> <<>>, edge_info |-> <<>>]

create_plotly_graph_enhanced(ns, es, count) ==
    IF Len(ns) <= 1
        THEN [fig |-> EmptyFigure, node_addresses |-> <<>>]
        ELSE [fig |-> [annotation |-> "",
                       node_info |-> [i \in 1..Len(ns) |-> NodeInfo(es, ns[i], count)],
                       edge_info |-> es],
              node_addresses |-> [i \in 1..Len(ns) |-> ns[i].address]]

(***************************************************************************)
(* The routes' answers.  'transactions' and 'address_info' of the success  *)
(* answer repeat state and are left out.                                   *)
(***************************************************************************)
NoResponse == [success |-> FALSE, error |-> "<pending>",
               graph |-> EmptyFigure, node_addresses |-> <<>>]

FailureResponse == [success |-> FALSE, error |-> "Failed to fetch transactions",
                    graph |-> EmptyFigure, node_addresses |-> <<>>]

SuccessResponse(out) == [success |-> TRUE, error |-> "",
                         graph |-> out.fig, node_addresses |-> out.node_addresses]

(***************************************************************************)
(* Inputs: what the provider may answer.                                   *)
(***************************************************************************)
Leg(a, v) == [prevout |-> TRUE, address |-> a, value |-> v]
Out(a, v) == [address |-> a, value |-> v]
NoPrevout == [prevout |-> FALSE, address |-> Absent, value |-> 0]

StatusAt(t, height) ==
    IF t = 0 THEN [confirmed |-> FALSE, block_height |-> 0, block_time |-> 0]
    ELSE [confirmed |-> TRUE, block_height |-> height, block_time |-> t]

RawTx(txid, t, height, fee, vin, vout) ==
    [txid |-> txid, status |-> StatusAt(t, height), fee |-> fee, vin |-> vin, vout |-> vout]

TxId(i) == "tx" \o ToString(i)

\* Leg lists of the transactions of Spec: <<vin, vout>>.
Shapes ==
    { <<<<Leg("X", 3)>>, <<Leg(Subject, 2), Leg("X", 1)>>>>,              \* +2 from X
      <<<<Leg("X", 1), Leg("Y", 1)>>, <<Out(Subject, 1), Out(Absent, 1)>>>>, \* +1, X and Y tie
      <<<<Leg(Subject, 3)>>, <<Out("X", 2), Out(Subject, 1)>>>>,          \* -2 to X
      <<<<Leg(Subject, 1), Leg("Y", 1)>>, <<Out("Y", 1), Out("X", 1)>>>>, \* -1, Y and X tie
      <<<<Leg(Subject, 1), Leg("X", 1)>>, <<Out(Subject, 1), Out("X", 1)>>>>, \* no net change
      <<<<NoPrevout>>, <<Out(Subject, 1)>>>> }                            \* coinbase

Times == {0, Now - 2 * DaySeconds, Now - DaySeconds}

\* What one entry of the answer may be: well formed, or without its txid.
Entries ==
    [shape : Shapes, t : Times, txid : {TRUE}]
    \cup {[shape |-> <<<<Leg("X", 3)>>, <<Out(Subject, 2), Out("X", 1)>>>>,
           t |-> Now - DaySeconds, txid |-> FALSE]}

EntryTx(i, e) ==
    RawTx(IF e.txid THEN TxId(i) ELSE Absent, e.t, ReferenceHeight - 6, 0,
          e.shape[1], e.shape[2])

Bodies ==
    UNION {{[i \in 1..n |-> EntryTx(i, c[i])] : c \in [1..n -> Entries]} : n \in 0..MaxTxs}

Unavailable == [status |-> 503, body |-> <<>>]

Requests ==
    {[route |-> "explore", days |-> 0]}
    \cup {[route |-> "filtered", days |-> d] : d \in 0..MaxWindow}

EmptyEdgeData == [k \in {} |-> NewEdge]
EmptyEdges == AddEdges(EmptyEdgeData)
NoCall == [category |-> "unknown", outputs |-> <<>>, fee |-> 0, confirmations |-> 0]

Idle ==
    /\ pc = "start"
    /\ transactions = NoneResult
    /\ txs = <<>>
    /\ idx = 1
    /\ nodes = <<>>
    /\ tx_count = 0
    /\ edge_data = EmptyEdgeData
    /\ edges = EmptyEdges
    /\ response = NoResponse
    /\ call = NoCall
    /\ result = -1

Init ==
    /\ request \in Requests
    /\ provider \in {Unavailable} \cup {[status |-> HttpOk, body |-> b] : b \in Bodies}
    /\ Idle

(***************************************************************************)
(* The request handlers explore_address and explore_address_filtered, in   *)
(* steps: the fetch, the test of its result, the fold loop (one iteration  *)
(* a step), the edge loop, the export and answer.                          *)
(***************************************************************************)
Limit(req) == IF req.route = "explore" THEN ExploreLimit ELSE FilteredLimit

Fetch ==
    /\ pc = "start"
    /\ transactions' = get_address_transactions(Subject, Limit(request), provider)
    /\ pc' = "fetched"
    /\ UNCHANGED <<request, provider, txs, idx, nodes, tx_count, edge_data, edges,
                   response, call, result>>

RespondFailure ==
    /\ pc = "fetched"
    /\ ~Truthy(transactions)
    /\ response' = FailureResponse
    /\ pc' = "done"
    /\ UNCHANGED <<request, provider, transactions, txs, idx, nodes, tx_count,
                   edge_data, edges, call, result>>

BeginGraph ==
    /\ pc = "fetched"
    /\ Truthy(transactions)
    /\ txs' = FilterTransactions(transactions.list, request)
    /\ nodes' = add_node(<<>>, Subject, "main")
    /\ tx_count' = Len(txs')
    /\ edge_data' = EmptyEdgeData
    /\ idx' = 1
    /\ pc' = "fold"
    /\ UNCHANGED <<request, provider, transactions, edges, response, call, result>>

FoldStep ==
    /\ pc = "fold"
    /\ idx <= Len(txs)
    /\ LET acc == FoldTx([edge_data |-> edge_data, nodes |-> nodes], txs[idx], Subject)
       IN  /\ edge_data' = acc.edge_data
           /\ nodes' = acc.nodes
    /\ idx' = idx + 1
    /\ UNCHANGED <<request, provider, pc, transactions, txs, tx_count, edges,
                   response, call, result>>

Finalize ==
    /\ pc = "fold"
    /\ idx > Len(txs)
    /\ edges' = AddEdges(edge_data)
    /\ pc' = "export"
    /\ UNCHANGED <<request, provider, transactions, txs, idx, nodes, tx_count,
                   edge_data, response, call, result>>

Export ==
    /\ pc = "export"
    /\ response' = SuccessResponse(create_plotly_graph_enhanced(nodes, edges, tx_count))
    /\ pc' = "done"
    /\ UNCHANGED <<request, provider, transactions, txs, idx, nodes, tx_count,
                   edge_data, edges, call, result>>

Next ==
    \/ Fetch
    \/ RespondFailure
    \/ BeginGraph
    \/ FoldStep
    \/ Finalize
    \/ Export

Spec == Init /\ [][Next]_vars

(***************************************************************************)
(* SpecLegs: the same handlers on one transaction whose input or output    *)
(* leg list is any list of at most MaxLegs legs.                           *)
(***************************************************************************)
LegAddresses == {Subject, "X", "Y", Absent}
LegValues == {1, 2}
LegPairs == LegAddresses \X LegValues
LegLists == UNION {[1..n -> LegPairs] : n \in 0..MaxLegs}
AsVin(l) == [i \in 1..Len(l) |-> Leg(l[i][1], l[i][2])]
AsVout(l) == [i \in 1..Len(l) |-> Out(l[i][1], l[i][2])]

LegBodies ==
    {<<RawTx(TxId(1), Now - DaySeconds, ReferenceHeight - 6, 0, AsVin(l), <<Out(Subject, 3)>>)>> :
        l \in LegLists}
    \cup
    {<<RawTx(TxId(1), Now - DaySeconds, ReferenceHeight - 6, 0, <<Leg(Subject, 3)>>, AsVout(l))>> :
        l \in LegLists}

InitLegs ==
    /\ request \in {[route |-> "explore", days |-> 0]}
    /\ provider \in {Unavailable} \cup {[status |-> HttpOk, body |-> b] : b \in LegBodies}
    /\ Idle

SpecLegs == InitLegs /\ [][Next]_vars

(***************************************************************************)
(* SpecWide: the same handlers on one transaction of nin distinct input    *)
(* addresses (the first the subject's) and nout distinct output addresses, *)
(* every output of 1 satoshi, the inputs worth diff more than the outputs. *)
(***************************************************************************)
WideVin(nin, total) ==
    [i \in 1..nin |-> IF i = 1 THEN Leg(Subject, total) ELSE Leg("in" \o ToString(i), 0)]

WideVout(nout) == [i \in 1..nout |-> Out("out" \o ToString(i), 1)]

WideTx(nin, nout, diff, fee, t) ==
    RawTx(TxId(1), t, ReferenceHeight - 6, fee, WideVin(nin, nout + diff), WideVout(nout))

WideBodies ==
    {<<WideTx(nin, nout, diff, fee, t)>> :
        nin \in 0..MaxIn, nout \in 0..MaxOut, diff \in {0, 1, 999, 1000},
        fee \in {0, HighFee + 1}, t \in {0, Now - DaySeconds}}

InitWide ==
    /\ request \in {[route |-> "explore", days |-> 0]}
    /\ provider \in {Unavailable} \cup {[status |-> HttpOk, body |-> b] : b \in WideBodies}
    /\ Idle

SpecWide == InitWide /\ [][Next]_vars

(***************************************************************************)
(* SpecRisk: calculate_risk_score called on a record of any category, any  *)
(* number of output legs, fee and confirmations, and the record then given *)
(* to create_enhanced_transaction_graph.                                   *)
(***************************************************************************)
Categories == {"unknown", "simple_payment", "exchange_batch", "consolidation",
               "mixing_suspicious", "standard"}

CallRecord(category, nout, fee, confirmations, t) ==
    [txid          |-> TxId(1),
     block_height  |-> ReferenceHeight - confirmations,
     confirmations |-> confirmations,
     time          |-> format_timestamp(t),
     raw_time      |-> t,
     fee           |-> fee,
     inputs        |-> <<[address |-> "X", value |-> nout]>>,
     outputs       |-> [i \in 1..nout |-> [address |-> Subject, value |-> 1]],
     amount_change |-> nout,
     category      |-> category,
     risk_score    |-> 0]

Calls ==
    {CallRecord(category, nout, fee, confirmations, Now - DaySeconds) :
        category \in Categories, nout \in 0..MaxOutLegs,
        fee \in {0, HighFee, HighFee + 1}, confirmations \in {0, 1}}

InitRisk ==
    /\ request \in {[route |-> "explore", days |-> 0]}
    /\ provider = Unavailable
    /\ pc = "start"
    /\ transactions = NoneResult
    /\ txs = <<>>
    /\ idx = 1
    /\ nodes = <<>>
    /\ tx_count = 0
    /\ edge_data = EmptyEdgeData
    /\ edges = EmptyEdges
    /\ response = NoResponse
    /\ call \in Calls
    /\ result = -1

Score ==
    /\ pc = "start"
    /\ result' = calculate_risk_score(call)
    /\ transactions' = [isNone |-> FALSE, list |-> <<[call EXCEPT !.risk_score = result']>>]
    /\ pc' = "fetched"
    /\ UNCHANGED <<request, provider, txs, idx, nodes, tx_count, edge_data, edges,
                   response, call>>

NextRisk ==
    \/ Score
    \/ BeginGraph
    \/ FoldStep
    \/ Finalize
    \/ Export

SpecRisk == InitRisk /\ [][NextRisk]_vars

(***************************************************************************)
(* The claims.                                                             *)
(***************************************************************************)
Folded == pc \in {"export", "done"} /\ Truthy(transactions)

\* The pair a transaction is routed to, <<>> when it is routed to none.
RoutedKey(tx) ==
    IF Abs(tx.amount_change) < DustThreshold THEN <<>>
    ELSE IF tx.amount_change > 0
        THEN LET c == find_primary_address(tx.inputs, Subject)
             IN  IF c = None THEN <<>> ELSE <<c, Subject>>
        ELSE LET c == find_primary_address(tx.outputs, Subject)
             IN  IF c = None THEN <<>> ELSE <<Subject, c>>

RoutedTo(list, key) == {i \in 1..Len(list) : RoutedKey(list[i]) = key}

RECURSIVE SumAbs(_, _)
SumAbs(list, is) ==
    IF is = {} THEN 0
    ELSE LET i == CHOOSE x \in is : TRUE
         IN  Abs(list[i].amount_change) + SumAbs(list, is \ {i})

Perms(n) == {f \in [1..n -> 1..n] : \A i, j \in 1..n : f[i] = f[j] => i = j}

GraphOf(list) ==
    AddEdges(FoldAll([edge_data |-> EmptyEdgeData, nodes |-> add_node(<<>>, Subject, "main")],
                     list, Subject).edge_data)

C2_DustIsNoOp ==
    [][(pc = "fold" /\ idx <= Len(txs) /\ Abs(txs[idx].amount_change) < 1)
        => (edge_data' = edge_data /\ nodes' = nodes)]_vars

\* A dust transaction has just been folded after one that made an edge.
C2_Witness ==
    /\ pc = "fold"
    /\ idx = 3
    /\ txs[2].amount_change = 0
    /\ txs[2].outputs # <<>>
    /\ DOMAIN edge_data # {}
    /\ Len(nodes) = 2

\* C3: a request whose fetch succeeded (get_address_transactions did not return
\* None) never ends in the answer given when the fetch failed.
C3_EmptyDistinctFromFailure ==
    (pc = "done" /\ ~transactions.isNone) => response # FailureResponse

\* C4: a batch with an entry that carries its txid is never turned into no
\* result: the fetch returns the processed records of the entries that carry a
\* txid, in their order, and skips only the others.
WellFormed(raw) == SelectSeq(raw, LAMBDA tx : tx.txid # Absent)

C4_MalformedSkipped ==
    (pc # "start" /\ provider.status = HttpOk /\ WellFormed(provider.body) # <<>>) =>
        /\ ~transactions.isNone
        /\ transactions.list =
              [i \in 1..Len(WellFormed(provider.body)) |->
                  ProcessOne(Subject, WellFormed(provider.body)[i])]

\* C5: a processed transaction of more than fifty distinct output addresses, at
\* most ten distinct input addresses and unequal input and output totals is
\* categorized mixing_suspicious, and with more than 20 output legs its risk
\* score is 5.
C5_MixingSuspicious ==
    \A i \in 1..Len(transactions.list) :
        LET tx == transactions.list[i]
        IN  (/\ Cardinality(AddrSet(tx.outputs)) > 50
             /\ Cardinality(AddrSet(tx.inputs)) <= 10
             /\ SumValues(tx.inputs) # SumValues(tx.outputs))
            => /\ tx.category = "mixing_suspicious"
               /\ (Len(tx.outputs) > 20 => tx.risk_score = 5)

\* C6: in the exported figure the total shown for a source node is the sum of
\* the amounts of its incident edges of direction incoming, and the total shown
\* for a destination node the sum over its incident edges of direction outgoing.
Incident(es, node, dir) ==
    {e \in DOMAIN es : (e[1] = node \/ e[2] = node) /\ es[e].direction = dir}

C6_NodeTotals ==
    (pc = "done" /\ response.success) =>
        \A i \in 1..Len(response.graph.node_info) :
            LET info == response.graph.node_info[i]
            IN  /\ info.role = "SOURCE" =>
                      info.total = SumAmounts(edges, Incident(edges, info.address, "incoming"))
                /\ info.role = "DESTINATION" =>
                      info.total = SumAmounts(edges, Incident(edges, info.address, "outgoing"))

\* C7: on the filtered route the transactions folded are exactly those whose
\* raw_time is not older than now minus the window (a raw_time equal to the
\* cutoff is kept), whatever the window, and the main node's transaction count
\* and every edge are computed from them.
C7_WindowApplied ==
    (pc \in {"fold", "export", "done"} /\ request.route = "filtered") =>
        LET kept == SelectSeq(transactions.list,
                              LAMBDA tx : tx.raw_time >= Now - request.days * DaySeconds)
        IN  /\ txs = kept
            /\ tx_count = Len(kept)
            /\ pc # "fold" => edges = GraphOf(kept)

\* C8: calculate_risk_score returns an integer from 0 to 5 for a record of any
\* category, fee, confirmations and number of output legs, and every edge's
\* risk level, the greatest score of its contributing transactions, is from 0
\* to 5 too.
C8_RiskBounded ==
    /\ pc # "start" =>
          /\ result \in 0..5
          /\ \A i \in 1..Len(transactions.list) : transactions.list[i].risk_score = result
    /\ \A key \in DOMAIN edges :
          LET list == edge_data[key].txs
          IN  /\ edges[key].risk_level \in 0..5
              /\ \E i \in 1..Len(list) : edges[key].risk_level = list[i].risk_score
              /\ \A i \in 1..Len(list) : edges[key].risk_level >= list[i].risk_score

\* A record on which every rule of the score fires made an edge of risk 5.
C8_Witness ==
    /\ pc = "done"
    /\ call.category = "mixing_suspicious"
    /\ Len(call.outputs) > 20
    /\ call.fee > HighFee
    /\ call.confirmations = 0
    /\ result = 5
    /\ \E key \in DOMAIN edges : edges[key].risk_level = 5

\* C9: find_primary_address returns None exactly when every leg is the
\* subject's or "Unknown"; otherwise the address of the first leg, in list
\* order, among the legs of greatest value that are neither; it never returns
\* the subject or "Unknown"; and a transaction that is not dust and has no
\* counterparty adds no edge and no node.
Cands(list) ==
    {i \in 1..Len(list) : list[i].address # Subject /\ list[i].address # "Unknown"}

FirstBest(list) ==
    CHOOSE i \in Cands(list) :
        /\ \A j \in Cands(list) : list[j].value <= list[i].value
        /\ \A j \in Cands(list) : j < i => list[j].value < list[i].value

Selected(tx) == IF tx.amount_change > 0 THEN tx.inputs ELSE tx.outputs

C9_PrimaryAddress ==
    /\ \A i \in 1..Len(transactions.list) :
          \A list \in {transactions.list[i].inputs, transactions.list[i].outputs} :
              LET r == find_primary_address(list, Subject)
              IN  /\ r = None <=> Cands(list) = {}
                  /\ r # None => r = list[FirstBest(list)].address
                  /\ r # Subject /\ r # "Unknown"
    /\ Folded =>
          LET routed == {i \in 1..Len(txs) :
                            txs[i].amount_change # 0 /\ Cands(Selected(txs[i])) # {}}
          IN  /\ \A key \in DOMAIN edge_data :
                    \A k \in 1..Len(edge_data[key].txs) :
                        \E i \in routed : edge_data[key].txs[k] = txs[i]
              /\ routed = {} => (DOMAIN edge_data = {} /\ Len(nodes) = 1)
              /\ {nodes[k].address : k \in 1..Len(nodes)} =
                    {Subject} \cup
                    {Selected(txs[i])[FirstBest(Selected(txs[i]))].address : i \in routed}

\* Two candidates tie for the greatest value and the first was selected.
C9_Witness ==
    /\ pc = "done"
    /\ Len(txs) = 1
    /\ Len(txs[1].inputs) = 2
    /\ txs[1].inputs[1].address = "Y"
    /\ txs[1].inputs[2].address = "X"
    /\ txs[1].inputs[1].value = txs[1].inputs[2].value
    /\ DOMAIN edges = {<<"Y", Subject>>}

\* C10: an edge's latest activity is the display time of the first, in input
\* order, of its contributing transactions of greatest raw_time; for two
\* transactions of different raw_time merged into one edge it is the later
\* one's display time in either input order.
Contributions(list, key) == SelectSeq(list, LAMBDA tx : RoutedKey(tx) = key)

C10_LatestActivity ==
    Folded =>
        \A key \in DOMAIN edges :
            LET list == Contributions(txs, key)
                swapped == GraphOf([i \in 1..Len(txs) |-> txs[Len(txs) + 1 - i]])
            IN  /\ edge_data[key].txs = list
                /\ \E i \in 1..Len(list) :
                      /\ \A j \in 1..Len(list) : list[j].raw_time <= list[i].raw_time
                      /\ \A j \in 1..(i - 1) : list[j].raw_time < list[i].raw_time
                      /\ edges[key].latest_tx = list[i].time
                /\ (Len(list) = 2 /\ list[1].raw_time # list[2].raw_time) =>
                      LET later == IF list[1].raw_time > list[2].raw_time
                                   THEN list[1] ELSE list[2]
                      IN  /\ edges[key].latest_tx = later.time
                          /\ swapped[key].latest_tx = later.time

\* The later of two merged transactions was presented first.
C10_Witness ==
    /\ pc = "done"
    /\ \E key \in DOMAIN edges :
          /\ Len(edge_data[key].txs) = 2
          /\ edge_data[key].txs[1].raw_time > edge_data[key].txs[2].raw_time
          /\ edge_data[key].txs[2].raw_time > 0
          /\ edges[key].latest_tx = edge_data[key].txs[1].time
          /\ edges[key].latest_tx # edge_data[key].txs[2].time


\* The transaction matches neither the simple_payment nor the exchange_batch rule.
NeitherRule(tx) ==
    /\ ~(Cardinality(AddrSet(tx.inputs)) = 1 /\ Cardinality(AddrSet(tx.outputs)) = 2)
    /\ Cardinality(AddrSet(tx.inputs)) <= 10
    /\ Cardinality(AddrSet(tx.outputs)) <= 10

Imbalance(tx) == Abs(SumValues(tx.inputs) - SumValues(tx.outputs))

====
